---- MODULE Spec2Model ----
(***************************************************************************)
(* Model of the item-scanner scan route (app/api/scan/route.ts) and its    *)
(* temporary image store (lib/imageStore.ts).                              *)
(*                                                                         *)
(* Strings are sequences of tokens.  In a text returned by the language    *)
(* model the tokens are: "{" "}" "[" "]" "," ; "n", a JSON primitive;      *)
(* "s", one whitespace character; "x", one character of prose; "fence", a  *)
(* code fence (three backticks); "json", the fence's tag; and the pair     *)
(* tokens of PairTokens, each one complete "key":"value" member of a JSON  *)
(* object.  Other strings (error messages, media types, object names) are  *)
(* sequences of larger pieces.  An optional value is a set of at most one  *)
(* element: {} is undefined or null, {v} is the value v.                   *)
(***************************************************************************)
EXTENDS Integers, Sequences, FiniteSets, TLC

\* ---------------------------------------------------------------- bounds

\* the number of scans (requests) the route handles
NumScans == 2
\* the longest list of visual matches the search provider returns
MaxMatches == 6
\* the longest text the extractor is run on, in tokens
MaxTextLen == 4

\* ------------------------------------------------------- text and JSON

WS == "s"
Fence == "fence"
JsonTag == "json"

PairTokens == {"a", "b", "w"}

PairKey(tok) ==
  CASE tok = "a" -> "description"
    [] tok = "b" -> "valueRange"
    [] tok = "w" -> "webResults"

\* the value of "w" is a list holding one made-up match
PairVal(tok) ==
  CASE tok = "a" -> "A red mug"
    [] tok = "b" -> "$5-$10"
    [] tok = "w" -> <<[title |-> <<"injected">>, price |-> {}, link |-> <<>>,
                       source |-> <<>>, thumbnail |-> {}]>>

EmptyObj == [k \in {} |-> ""]

Min(S) == CHOOSE x \in S : \A y \in S : x <= y
Max(S) == CHOOSE x \in S : \A y \in S : x >= y

\* the first index >= i of t that holds no whitespace (Len(t) + 1 if none)
SkipWs(t, i) ==
  Min({j \in i..(Len(t) + 1) : j = Len(t) + 1 \/ t[j] # WS})

\* the last index <= i of t that holds no whitespace (0 if none)
SkipWsBack(t, i) ==
  Max({j \in 0..i : j = 0 \/ t[j] # WS})

\* String.prototype.trim
Trim(t) ==
  SubSeq(t, SkipWs(t, 1), SkipWsBack(t, Len(t)))

\* String.prototype.startsWith
StartsWith(t, prefix) ==
  /\ Len(t) >= Len(prefix)
  /\ SubSeq(t, 1, Len(prefix)) = prefix

\* raw.replace(/^FENCE(?:json)?\s*/i, ""), FENCE being three backticks
StripLeadingFence(t) ==
  IF Len(t) >= 1 /\ t[1] = Fence
  THEN LET a == IF Len(t) >= 2 /\ t[2] = JsonTag THEN 3 ELSE 2
       IN  SubSeq(t, SkipWs(t, a), Len(t))
  ELSE t

\* .replace(/\s*FENCE\s*$/i, ""): the match ends the text, so its fence is the
\* last token that is not whitespace; it starts at the whitespace before it
StripTrailingFence(t) ==
  LET f == SkipWsBack(t, Len(t))
  IN  IF f >= 1 /\ t[f] = Fence
      THEN SubSeq(t, 1, SkipWsBack(t, f - 1))
      ELSE t

ParseFail == [ok |-> FALSE, next |-> 0, kind |-> "none", obj |-> EmptyObj]

RECURSIVE ParseValue(_, _)
RECURSIVE ParseElems(_, _)
RECURSIVE ParseMembers(_, _, _)

\* one JSON value of t starting at index i (whitespace skipped)
ParseValue(t, i) ==
  LET j == SkipWs(t, i)
  IN  IF j > Len(t) THEN ParseFail
      ELSE IF t[j] = "n"
      THEN [ok |-> TRUE, next |-> j + 1, kind |-> "prim", obj |-> EmptyObj]
      ELSE IF t[j] = "["
      THEN LET k == SkipWs(t, j + 1)
           IN  IF k <= Len(t) /\ t[k] = "]"
               THEN [ok |-> TRUE, next |-> k + 1, kind |-> "array", obj |-> EmptyObj]
               ELSE ParseElems(t, j + 1)
      ELSE IF t[j] = "{"
      THEN LET k == SkipWs(t, j + 1)
           IN  IF k <= Len(t) /\ t[k] = "}"
               THEN [ok |-> TRUE, next |-> k + 1, kind |-> "object", obj |-> EmptyObj]
               ELSE ParseMembers(t, j + 1, EmptyObj)
      ELSE ParseFail

\* the elements of an array from index i on, up to its "]"
ParseElems(t, i) ==
  LET v == ParseValue(t, i)
  IN  IF ~v.ok THEN ParseFail
      ELSE LET k == SkipWs(t, v.next)
           IN  IF k > Len(t) THEN ParseFail
               ELSE IF t[k] = "," THEN ParseElems(t, k + 1)
               ELSE IF t[k] = "]"
               THEN [ok |-> TRUE, next |-> k + 1, kind |-> "array", obj |-> EmptyObj]
               ELSE ParseFail

\* the members of an object from index i on, up to its "}"; a repeated key
\* keeps its last value
ParseMembers(t, i, acc) ==
  LET j == SkipWs(t, i)
  IN  IF j > Len(t) \/ t[j] \notin PairTokens THEN ParseFail
      ELSE LET acc2 == (PairKey(t[j]) :> PairVal(t[j])) @@ acc
               k == SkipWs(t, j + 1)
           IN  IF k > Len(t) THEN ParseFail
               ELSE IF t[k] = "," THEN ParseMembers(t, k + 1, acc2)
               ELSE IF t[k] = "}"
               THEN [ok |-> TRUE, next |-> k + 1, kind |-> "object", obj |-> acc2]
               ELSE ParseFail

\* JSON.parse: one value, then whitespace only
JSONparse(t) ==
  LET v == ParseValue(t, 1)
  IN  IF v.ok /\ SkipWs(t, v.next) > Len(t) THEN v ELSE ParseFail

\* a test that takes whatever parses
Acceptable_any(t) == JSONparse(t).ok

\* obj && typeof obj === "object" && !Array.isArray(obj)
Acceptable(t) ==
  LET v == JSONparse(t) IN v.ok /\ v.kind = "object"

Braces(t, c) == {i \in 1..Len(t) : t[i] = c}

\* candidate 1: fences stripped, trimmed
FenceStripped(raw) ==
  Trim(StripTrailingFence(StripLeadingFence(raw)))

\* candidate 2: from raw.indexOf("{") to raw.lastIndexOf("}")
BraceSlice(raw) ==
  LET firstBrace == IF Braces(raw, "{") = {} THEN -1 ELSE Min(Braces(raw, "{"))
      lastBrace == IF Braces(raw, "}") = {} THEN -1 ELSE Max(Braces(raw, "}"))
  IN  IF firstBrace # -1 /\ lastBrace > firstBrace
      THEN <<SubSeq(raw, firstBrace, lastBrace)>>
      ELSE <<>>

\* a regular expression whose star is lazy: up to the first "}"
RegexSpan_lazy(raw) ==
  LET starts == {p \in Braces(raw, "{") : \E q \in Braces(raw, "}") : q > p}
  IN  IF starts = {} THEN <<>>
      ELSE LET p == Min(starts)
               q == Min({r \in Braces(raw, "}") : r > p})
           IN  <<SubSeq(raw, p, q)>>

\* candidate 3: raw.match(/\{[\s\S]*\}/): the leftmost "{" that some "}"
\* follows, up to the last "}" (the star is greedy)
RegexSpan(raw) ==
  LET starts == {p \in Braces(raw, "{") : \E q \in Braces(raw, "}") : q > p}
  IN  IF starts = {} THEN <<>>
      ELSE LET p == Min(starts)
               q == Max({r \in Braces(raw, "}") : r > p})
           IN  <<SubSeq(raw, p, q)>>

\* the fence-stripped candidate alone
Attempts_fenceOnly(raw) == <<FenceStripped(raw)>>

\* the candidates in the order they are tried
Attempts(raw) == <<FenceStripped(raw)>> \o BraceSlice(raw) \o RegexSpan(raw)

\* an extractor without its fallbacks
extractJson_noFallback(raw) ==
  IF Acceptable(FenceStripped(raw)) THEN {JSONparse(FenceStripped(raw)).obj}
  ELSE {}

\* extractJson: the parse of the first acceptable candidate; {} stands for null
extractJson(raw) ==
  LET attempts == Attempts(raw)
      good == {i \in 1..Len(attempts) : Acceptable(attempts[i])}
  IN  IF good = {} THEN {} ELSE {JSONparse(attempts[Min(good)]).obj}

\* --------------------------------------------------------- media types

JPEG == <<"image", "jpeg">>
PNG == <<"image", "png">>
GIF == <<"image", "gif">>
WEBP == <<"image", "webp">>

\* a media type is the sequence of its "/"-separated parts
VALID_MEDIA_TYPES == <<JPEG, PNG, GIF, WEBP>>

Includes(arr, x) == \E i \in 1..Len(arr) : arr[i] = x

\* a resolution that falls back to jpeg only when no media type is declared
resolvedMediaType_unchecked(mediaType) ==
  IF mediaType = {} THEN JPEG ELSE CHOOSE m \in mediaType : TRUE

\* VALID_MEDIA_TYPES.includes(mediaType) ? mediaType : "image/jpeg"
resolvedMediaType(mediaType) ==
  IF \E m \in mediaType : Includes(VALID_MEDIA_TYPES, m)
  THEN CHOOSE m \in mediaType : TRUE
  ELSE JPEG

\* ---------------------------------------------------------- image store

\* an extension taken as it stands in the media type
Ext_asDeclared(mediaType) ==
  IF Len(mediaType) >= 2 THEN mediaType[2] ELSE "jpg"

\* mediaType.split("/")[1]?.replace("jpeg", "jpg") ?? "jpg"
Ext(mediaType) ==
  IF Len(mediaType) >= 2
  THEN IF mediaType[2] = "jpeg" THEN "jpg" ELSE mediaType[2]
  ELSE "jpg"

\* a name without the uuid
Filename_fixed(id, mediaType) == <<"temp-scans/", "scan", ".", Ext(mediaType)>>

\* `temp-scans/${randomUUID()}.${ext}`, the uuid being the id-th one drawn
Filename(id, mediaType) == <<"temp-scans/", id, ".", Ext(mediaType)>>

\* ------------------------------------------------------- search client

\* SerpApi's visual match number i; some of its fields are missing, and the
\* title of some is the empty string
ProviderMatch(i) ==
  [title     |-> IF i % 4 = 0 THEN {}
                 ELSE IF i % 4 = 2 THEN {<<>>}
                 ELSE {<<"title", i>>},
   price     |-> IF i % 3 = 0 THEN {}
                 ELSE IF i % 3 = 1 THEN {[value |-> {<<"$", i>>}]}
                 ELSE {[value |-> {}]},
   link      |-> IF i % 5 = 0 THEN {} ELSE {<<"link", i>>},
   source    |-> IF i % 2 = 0 THEN {} ELSE {<<"source", i>>},
   thumbnail |-> IF i % 2 = 1 THEN {} ELSE {<<"thumb", i>>}]

\* the JSON payloads of SerpApi: visual_matches absent, or a list of n
\* matches, in ascending or in descending order of their numbers
Payloads ==
  {[visual_matches |-> {}]}
  \cup {[visual_matches |-> {[i \in 1..n |-> ProviderMatch(i)]}] : n \in 0..MaxMatches}
  \cup {[visual_matches |-> {[i \in 1..n |-> ProviderMatch(n + 1 - i)]}] :
          n \in 2..MaxMatches}

\* what fetch(url, {signal: AbortSignal.timeout(15_000)}) and res.json() give:
\* an abort at the timeout, a response that is not ok, a body that is no JSON,
\* a JSON body whose visual_matches is no list, or a payload
FetchOutcomes ==
  {[kind |-> "timeout", status |-> 0, data |-> [visual_matches |-> {}]],
   [kind |-> "response", status |-> 500, data |-> [visual_matches |-> {}]],
   [kind |-> "badjson", status |-> 200, data |-> [visual_matches |-> {}]],
   [kind |-> "badshape", status |-> 200, data |-> [visual_matches |-> {}]]}
  \cup {[kind |-> "response", status |-> 200, data |-> p] : p \in Payloads}

\* a slice that keeps one match more
MaxResults_more == 5 + 1

\* the number of matches kept: matches.slice(0, 5)
MaxResults == 5

\* a ?? b
Coalesce(a, b) == IF a = {} THEN b ELSE CHOOSE v \in a : TRUE

\* a mapping that defaults the thumbnail to the empty string
WebResult_emptyThumbnail(m) ==
  [title     |-> IF m.title = {} THEN <<"Unknown">> ELSE CHOOSE v \in m.title : TRUE,
   price     |-> IF m.price = {} THEN {} ELSE (CHOOSE p \in m.price : TRUE).value,
   link      |-> IF m.link = {} THEN <<>> ELSE CHOOSE v \in m.link : TRUE,
   source    |-> IF m.source = {} THEN <<>> ELSE CHOOSE v \in m.source : TRUE,
   thumbnail |-> IF m.thumbnail = {} THEN {<<>>} ELSE m.thumbnail]

\* the mapping of one match to a WebResult; price and thumbnail stay
\* optional ({} is null)
WebResult(m) ==
  [title     |-> Coalesce(m.title, <<"Unknown">>),
   price     |-> IF m.price = {} THEN {} ELSE (CHOOSE p \in m.price : TRUE).value,
   link      |-> Coalesce(m.link, <<>>),
   source    |-> Coalesce(m.source, <<>>),
   thumbnail |-> m.thumbnail]

\* an Error with its message; "at" records where it was thrown and is read by
\* no code
Error(message) == [isError |-> TRUE, message |-> message, at |-> "call"]
ErrorAt(message, at) == [isError |-> TRUE, message |-> message, at |-> at]

\* fetchLensResults on the outcome of its fetch: a list of WebResults, or
\* the error thrown
fetchLensResults(out) ==
  IF out.kind = "timeout"
  THEN [ok |-> FALSE, val |-> <<>>,
        err |-> Error(<<"The operation was aborted due to timeout">>)]
  ELSE IF ~(out.status \in 200..299)
  THEN [ok |-> FALSE, val |-> <<>>,
        err |-> Error(<<"SerpApi responded with ", ToString(out.status)>>)]
  ELSE IF out.kind = "badjson"
  THEN [ok |-> FALSE, val |-> <<>>,
        err |-> Error(<<"Unexpected token < in JSON at position 0">>)]
  ELSE IF out.kind = "badshape"
  THEN [ok |-> FALSE, val |-> <<>>,
        err |-> Error(<<"matches.slice(...).map is not a function">>)]
  ELSE LET matches == Coalesce(out.data.visual_matches, <<>>)
           n == IF Len(matches) < MaxResults THEN Len(matches) ELSE MaxResults
       IN  [ok |-> TRUE, val |-> [i \in 1..n |-> WebResult(matches[i])],
            err |-> Error(<<>>)]

\* ------------------------------------------------------ vision client

\* the content blocks a reply of the language model may hold
TextBlock(text) == [type |-> "text", text |-> text]
ToolBlock == [type |-> "tool_use", text |-> <<>>]

\* the replies of the language model: each a list of content blocks
Replies ==
  {<<TextBlock(<<Fence, JsonTag, WS, "{", "a", ",", "b", "}", WS, Fence>>)>>,
   <<TextBlock(<<"{", "a", "}">>)>>,
   <<TextBlock(<<"x", WS, "{", "a", ",", "b", "}", WS, "x">>)>>,
   <<TextBlock(<<"{", "a">>), ToolBlock, TextBlock(<<",", "w", "}">>)>>,
   <<TextBlock(<<"x", "x", WS, "x">>)>>,
   <<TextBlock(<<"[", "n", "]">>)>>,
   <<TextBlock(<<"{", "a", ",", "}">>)>>,
   <<ToolBlock>>}

\* the text of the first block alone
Join_firstOnly(blocks) ==
  IF blocks # <<>> /\ Head(blocks).type = "text" THEN Head(blocks).text ELSE <<>>

RECURSIVE Join(_)
\* message.content.filter((b) => b.type === "text").map((b) => b.text).join("")
Join(blocks) ==
  IF blocks = <<>> THEN <<>>
  ELSE (IF Head(blocks).type = "text" THEN Head(blocks).text ELSE <<>>)
       \o Join(Tail(blocks))

ExtractPrefix == <<"Could not extract JSON">>

\* `Could not extract JSON from Claude response: ${rawText}`
ExtractMessage(rawText) ==
  ExtractPrefix \o <<" from Claude response: ">> \o rawText

\* what the vision call may throw: errors of the SDK and the network, one of
\* them worded like an extraction failure, and a thrown value that is no Error
VisionErrors ==
  {Error(<<"Connection error.">>),
   Error(<<"401 invalid x-api-key">>),
   Error(ExtractPrefix \o <<" schema: upstream unavailable">>),
   [isError |-> FALSE, message |-> <<>>, at |-> "call"]}

Pending == [st |-> "pending", val |-> <<>>, obj |-> EmptyObj, err |-> Error(<<>>)]
NotStarted == [st |-> "none", val |-> <<>>, obj |-> EmptyObj, err |-> Error(<<>>)]
Fulfilled(val, obj) ==
  [st |-> "fulfilled", val |-> val, obj |-> obj, err |-> Error(<<>>)]
Rejected(err) == [st |-> "rejected", val |-> <<>>, obj |-> EmptyObj, err |-> err]

\* fetchClaudeAnalysis after messages.create resolved with the blocks
fetchClaudeAnalysis(blocks) ==
  LET rawText == Join(blocks)
      parsed == extractJson(rawText)
  IN  IF parsed = {} THEN Rejected(ErrorAt(ExtractMessage(rawText), "extract"))
      ELSE Fulfilled(<<>>, CHOOSE o \in parsed : TRUE)

\* --------------------------------------------------------- the requests

Scans == 1..NumScans

Undefined == [type |-> "undefined", val |-> <<>>]
Str(val) == [type |-> "string", val |-> val]
Num(val) == [type |-> "number", val |-> val]

\* the image field of a body
Images == {Undefined, Num(<<"0">>), Num(<<"7">>), Str(<<>>), Str(<<"QUJD">>),
           Str(<<"not base64 !">>)}

\* the mediaType field of a body: absent, valid, or some other string
DeclaredMediaTypes ==
  {{}} \cup {{m} : m \in {JPEG, PNG, GIF, WEBP, <<"image", "bmp">>,
                          <<"IMAGE", "PNG">>, <<"png">>}}

\* the request bodies: text that is no JSON, the JSON null, a JSON primitive,
\* and JSON objects
Bodies ==
  {[kind |-> k, image |-> Undefined, mediaType |-> {}] :
     k \in {"unparseable", "null", "primitive"}}
  \cup {[kind |-> "object", image |-> i, mediaType |-> m] :
          i \in Images, m \in DeclaredMediaTypes}

NoBody == [kind |-> "none", image |-> Undefined, mediaType |-> {}]

\* !image || typeof image !== "string"
Falsy(image) ==
  \/ image.type = "undefined"
  \/ image.type = "string" /\ image.val = <<>>
  \/ image.type = "number" /\ image.val = <<"0">>

\* a check that wants base64 as well
MissingImage_base64(image) ==
  Falsy(image) \/ image.type # "string" \/ image.val = <<"not base64 !">>

\* !image || typeof image !== "string"
MissingImage(image) == Falsy(image) \/ image.type # "string"

\* -------------------------------------------------------- the responses

NoResponse == [status |-> 0, body |-> EmptyObj]

\* NextResponse.json({error}, {status})
ErrorResponse(status, error) == [status |-> status, body |-> [error |-> error]]

\* the response Next.js gives when the handler throws
UnhandledResponse == [status |-> 500, body |-> EmptyObj]

\* a success response without the spread of the analysis
SuccessResponse_noSpread(claudeResult, webResults) ==
  [status |-> 200, body |-> [webResults |-> webResults]]

\* a spread in the other order: the keys of the analysis win
SuccessResponse_modelWins(claudeResult, webResults) ==
  [status |-> 200,
   body |-> [k \in DOMAIN claudeResult \cup {"webResults"} |->
               IF k \in DOMAIN claudeResult THEN claudeResult[k] ELSE webResults]]

\* NextResponse.json({ ...claudeResult, webResults })
SuccessResponse(claudeResult, webResults) ==
  [status |-> 200,
   body |-> [k \in DOMAIN claudeResult \cup {"webResults"} |->
               IF k = "webResults" THEN webResults ELSE claudeResult[k]]]

\* err instanceof Error ? err.message : "Unknown error"
MessageOf(err) == IF err.isError THEN err.message ELSE <<"Unknown error">>

\* a catch block that degrades to a 200 with the error in it
CatchResponse_degrade(err) ==
  [status |-> 200,
   body |-> [error |-> <<"API request failed: ">> \o MessageOf(err),
             webResults |-> <<>>]]

\* the catch block of the handler
CatchResponse(err) ==
  LET msg == MessageOf(err)
  IN  IF StartsWith(msg, ExtractPrefix)
      THEN [status |-> 502,
            body |-> [error |-> <<"Claude returned an unexpected response format.">>,
                      raw |-> msg]]
      ELSE ErrorResponse(502, <<"API request failed: ">> \o msg)

\* a credential check that reads the wrong variable
CredentialMissing_wrongKey(e) == ~e.serpApiKey

\* !anthropicKey
CredentialMissing(e) == ~e.anthropicKey

\* a gate that one credential alone opens
ChainBEnabled_either(e) == e.serpApiKey \/ e.blobToken

\* serpApiKey && blobToken
ChainBEnabled(e) == e.serpApiKey /\ e.blobToken

\* .then in the place of .finally: the callback runs after a success only
OnFinally_then(search) == search.ok

\* whether the callback of fetchLensResults(...).finally(...) runs for an
\* outcome of the search: for every one
OnFinally(search) == TRUE

\* a chain without its .catch: the failure goes on to Promise.all
ChainBCatch_rethrow(err) == Rejected(err)

\* the .catch at the end of the web results chain
ChainBCatch(err) == Fulfilled(<<>>, EmptyObj)

\* a .finally whose deleteBlob has no .catch: its failure replaces the outcome
AfterFinally_uncaught(search, discardOk) ==
  IF ~discardOk THEN Rejected(Error(<<"Vercel Blob: delete failed">>))
  ELSE IF search.ok THEN Fulfilled(search.val, EmptyObj)
  ELSE Rejected(search.err)

\* p.finally(() => deleteBlob(blobUrl).catch(warn)): the search's outcome
\* passes through, the failure of deleteBlob is swallowed
AfterFinally(search, discardOk) ==
  IF search.ok THEN Fulfilled(search.val, EmptyObj) ELSE Rejected(search.err)

\* the whole chain once deleteBlob settled
ChainBResult(search, discardOk) ==
  LET p == AfterFinally(search, discardOk)
  IN  IF p.st = "rejected" THEN ChainBCatch(p.err) ELSE p

\* a join that gives up on the analysis once the web results are there
PromiseAll_webAlone(c, w) ==
  IF c.st = "rejected" THEN Rejected(c.err)
  ELSE IF w.st = "rejected" THEN Rejected(w.err)
  ELSE IF w.st = "fulfilled" /\ c.st \in {"fulfilled", "pending"}
  THEN Fulfilled(w.val, c.obj)
  ELSE Pending

\* Promise.all([claudePromise, webResultsPromise]): rejected as soon as one
\* of the two is, fulfilled once both are
PromiseAll(c, w) ==
  IF c.st = "rejected" THEN Rejected(c.err)
  ELSE IF w.st = "rejected" THEN Rejected(w.err)
  ELSE IF c.st = "fulfilled" /\ w.st = "fulfilled" THEN Fulfilled(w.val, c.obj)
  ELSE Pending

\* ------------------------------------------------------ the client page

\* how many times handleFile is called
MaxFlows == 2

\* the files the user picks or drops: file.type
Files == {<<"image/", "png">>, <<"image/", "jpeg">>, <<"text/", "plain">>, <<>>}

\* file.type.startsWith("image/")
IsImage(file) == StartsWith(file, <<"image/">>)

\* what fetch and res.json() give the client: a rejected fetch, or a response
\* with its status and a body that is no JSON, the JSON null, an object
\* without an error key, or an object with one
ClientOutcomes ==
  {[kind |-> "neterror", status |-> 0, json |-> "none"]}
  \cup {[kind |-> "response", status |-> st, json |-> j] :
          st \in {200, 400, 500, 502, 504},
          j \in {"none", "null", "object", "error"}}

\* what the two sessionStorage.setItem calls do: both succeed, the first
\* throws (quota), or the second does
StorageOutcomes == {"ok", "first", "second"}

NoOutcome == [kind |-> "none", status |-> 0, json |-> "none"]

EmptyStorage == [scanResult |-> {}, scanPreview |-> {}]

\* a check that takes every status
ResOk_any(status) == TRUE

\* res.ok
ResOk(status) == status \in 200..299

\* the page as it mounts; "outcome" and "before" record what the last flow
\* got and what the storage held when it began, and are read by no code
ClientIdle ==
  [phase |-> "idle", isLoading |-> FALSE, preview |-> {}, route |-> "/",
   storage |-> EmptyStorage, requests |-> 0, alert |-> {}, file |-> <<>>,
   flows |-> 0, outcome |-> NoOutcome, before |-> EmptyStorage]

\* URL.createObjectURL(file): a new url each time
ObjectUrl(n) == <<"blob:", n>>

\* the message of what the try block throws
ThrownMessage(out) ==
  IF out.kind = "neterror" THEN <<"Failed to fetch">>
  ELSE IF out.json = "none" THEN <<"Unexpected token">>
  ELSE IF out.json = "null" THEN <<"Cannot read properties of null">>
  ELSE IF out.json = "error" THEN <<"error of the server">>
  ELSE <<"Server error ", ToString(out.status)>>

\* the catch block of handleFile
Caught(c, msg) ==
  [c EXCEPT !.phase = "idle", !.isLoading = FALSE, !.preview = {},
            !.alert = {<<"Scan failed: ">> \o msg}]

\* ------------------------------------------------------------ the state

VARIABLES
  env,      \* process.env: which of the three credentials are set
  req,      \* the body of each scan's request
  pc,       \* where each scan's handler is: idle, reading, joined, done
  resp,     \* the response each handler returned
  claude,   \* each scan's claudePromise
  web,      \* each scan's webResultsPromise
  chainB,   \* each scan's store -> search -> delete chain
  calls,    \* the external calls each scan issued, in order
  blobs,    \* the names of the objects in the blob store
  uuids,    \* how many uuids randomUUID has drawn
  ex,       \* one run of the extractor on its own: its text and its result
  client    \* the page Home in one browser tab, with its session storage

vars == <<env, req, pc, resp, claude, web, chainB, calls, blobs, uuids, ex, client>>

NoUrl == <<>>

Call(op, image, mediaType, url) ==
  [op |-> op, image |-> image, mediaType |-> mediaType, url |-> url]
NoSearch == [ok |-> FALSE, val |-> <<>>, err |-> Error(<<>>)]
NoFetch == [kind |-> "none", status |-> 0, data |-> [visual_matches |-> {}]]

\* "fetched" records what the fetch of the search gave and is read by no code
ChainIdle ==
  [step |-> "none", url |-> NoUrl, search |-> NoSearch, deleted |-> FALSE,
   fetched |-> NoFetch]

\* a callback that tries the search once more after a failure
CleanupCalls_retry(search, url) ==
  IF search.ok THEN <<Call("discard", <<>>, <<>>, url)>>
  ELSE <<Call("search", <<>>, <<>>, url), Call("discard", <<>>, <<>>, url)>>

\* a callback that has lost the url
CleanupCalls_noUrl(search, url) == <<Call("discard", <<>>, <<>>, NoUrl)>>

\* the calls the callback of .finally issues
CleanupCalls(search, url) == <<Call("discard", <<>>, <<>>, url)>>


Envs == [anthropicKey : BOOLEAN, serpApiKey : BOOLEAN, blobToken : BOOLEAN]

\* the extractor not run
ExIdle == [phase |-> "none", raw |-> <<>>, parsed |-> {}, analysis |-> NotStarted]

\* the scans whose request arrives
Arriving == {1}

InitWith(arriving) ==
  /\ env \in Envs
  /\ req = [s \in Scans |-> NoBody]
  /\ pc = [s \in Scans |-> IF s \in arriving THEN "idle" ELSE "off"]
  /\ resp = [s \in Scans |-> NoResponse]
  /\ claude = [s \in Scans |-> NotStarted]
  /\ web = [s \in Scans |-> NotStarted]
  /\ chainB = [s \in Scans |-> ChainIdle]
  /\ calls = [s \in Scans |-> <<>>]
  /\ blobs = {}
  /\ uuids = 0
  /\ client = ClientIdle

Init == InitWith(Arriving) /\ ex = ExIdle

\* the handler's reaction to its two promises, given their new states: it
\* returns a response once Promise.all settled
Joined(s, c, w) ==
  LET all == PromiseAll(c, w)
  IN  IF pc[s] = "joined" /\ all.st = "rejected"
      THEN /\ resp' = [resp EXCEPT ![s] = CatchResponse(all.err)]
           /\ pc' = [pc EXCEPT ![s] = "done"]
      ELSE IF pc[s] = "joined" /\ all.st = "fulfilled"
      THEN /\ resp' = [resp EXCEPT ![s] = SuccessResponse(all.obj, all.val)]
           /\ pc' = [pc EXCEPT ![s] = "done"]
      ELSE UNCHANGED <<resp, pc>>

\* POST, up to await req.json(): the credential check
Receive(s, body) ==
  /\ pc[s] = "idle"
  /\ req' = [req EXCEPT ![s] = body]
  /\ IF CredentialMissing(env)
     THEN /\ resp' = [resp EXCEPT ![s] = ErrorResponse(500,
                        <<"ANTHROPIC_API_KEY environment variable is not set.">>)]
          /\ pc' = [pc EXCEPT ![s] = "done"]
     ELSE /\ pc' = [pc EXCEPT ![s] = "reading"]
          /\ UNCHANGED resp
  /\ UNCHANGED <<env, claude, web, chainB, calls, blobs, uuids, ex, client>>

\* POST, from the body read to await Promise.all: validation, then the launch
\* of the two chains
ReadBody(s) ==
  /\ pc[s] = "reading"
  /\ LET body == req[s]
         image == body.image
         mt == resolvedMediaType(body.mediaType)
     IN  IF body.kind = "unparseable"
         THEN /\ resp' = [resp EXCEPT ![s] = ErrorResponse(400, <<"Invalid JSON body.">>)]
              /\ pc' = [pc EXCEPT ![s] = "done"]
              /\ UNCHANGED <<claude, web, chainB, calls>>
         ELSE IF body.kind = "null"
         THEN \* const { image, mediaType } = null throws a TypeError
              /\ resp' = [resp EXCEPT ![s] = UnhandledResponse]
              /\ pc' = [pc EXCEPT ![s] = "done"]
              /\ UNCHANGED <<claude, web, chainB, calls>>
         ELSE IF MissingImage(image)
         THEN /\ resp' = [resp EXCEPT ![s] = ErrorResponse(400,
                            <<"Missing base64 image in request body.">>)]
              /\ pc' = [pc EXCEPT ![s] = "done"]
              /\ UNCHANGED <<claude, web, chainB, calls>>
         ELSE /\ claude' = [claude EXCEPT ![s] = Pending]
              /\ IF ChainBEnabled(env)
                 THEN /\ web' = [web EXCEPT ![s] = Pending]
                      /\ chainB' = [chainB EXCEPT ![s].step = "store"]
                      /\ calls' = [calls EXCEPT ![s] =
                           <<Call("vision", image.val, mt, NoUrl),
                             Call("store", image.val, mt, NoUrl)>>]
                 ELSE /\ web' = [web EXCEPT ![s] = Fulfilled(<<>>, EmptyObj)]
                      /\ calls' = [calls EXCEPT ![s] =
                           <<Call("vision", image.val, mt, NoUrl)>>]
                      /\ UNCHANGED chainB
              /\ pc' = [pc EXCEPT ![s] = "joined"]
              /\ UNCHANGED resp
  /\ UNCHANGED <<env, req, blobs, uuids, ex, client>>

\* messages.create resolves: the rest of fetchClaudeAnalysis, then the join
VisionReply(s, blocks) ==
  /\ claude[s].st = "pending"
  /\ LET c == fetchClaudeAnalysis(blocks)
     IN  /\ claude' = [claude EXCEPT ![s] = c]
         /\ Joined(s, c, web[s])
  /\ UNCHANGED <<env, req, web, chainB, calls, blobs, uuids, ex, client>>

\* messages.create rejects
VisionFail(s, err) ==
  /\ claude[s].st = "pending"
  /\ claude' = [claude EXCEPT ![s] = Rejected(err)]
  /\ Joined(s, Rejected(err), web[s])
  /\ UNCHANGED <<env, req, web, chainB, calls, blobs, uuids, ex, client>>

\* a .then callback that issues the search only once the vision call settled
StoreOk_awaitsVision(s) ==
  /\ chainB[s].step = "store"
  /\ LET mt == calls[s][2].mediaType
         url == Filename(uuids + 1, mt)
     IN  /\ uuids' = uuids + 1
         /\ blobs' = blobs \cup {url}
         /\ chainB' = [chainB EXCEPT ![s].step = "search", ![s].url = url]
         /\ calls' = [calls EXCEPT ![s] =
              IF claude[s].st = "pending" THEN @
              ELSE Append(@, Call("search", <<>>, <<>>, url))]
  /\ UNCHANGED <<env, req, pc, resp, claude, web, ex, client>>

\* uploadImage resolves with the url of the new object: the .then callback
\* issues the search
StoreOk(s) ==
  /\ chainB[s].step = "store"
  /\ LET mt == calls[s][2].mediaType
         url == Filename(uuids + 1, mt)
     IN  /\ uuids' = uuids + 1
         /\ blobs' = blobs \cup {url}
         /\ chainB' = [chainB EXCEPT ![s].step = "search", ![s].url = url]
         /\ calls' = [calls EXCEPT ![s] = Append(@, Call("search", <<>>, <<>>, url))]
  /\ UNCHANGED <<env, req, pc, resp, claude, web, ex, client>>

\* uploadImage rejects: the chain's .catch
StoreFail(s) ==
  /\ chainB[s].step = "store"
  /\ LET w == ChainBCatch(Error(<<"Vercel Blob: upload failed">>))
     IN  /\ web' = [web EXCEPT ![s] = w]
         /\ Joined(s, claude[s], w)
  /\ chainB' = [chainB EXCEPT ![s].step = "end"]
  /\ UNCHANGED <<env, req, claude, calls, blobs, uuids, ex, client>>

\* the search settles: the .finally callback issues deleteBlob
SearchSettle(s, out) ==
  /\ chainB[s].step = "search"
  /\ LET r == fetchLensResults(out)
     IN  IF OnFinally(r)
         THEN /\ chainB' = [chainB EXCEPT ![s].step = "discard", ![s].search = r,
                                          ![s].fetched = out]
              /\ calls' = [calls EXCEPT ![s] = @ \o CleanupCalls(r, chainB[s].url)]
              /\ UNCHANGED <<pc, resp, web>>
         ELSE /\ chainB' = [chainB EXCEPT ![s].step = "end", ![s].search = r,
                                          ![s].fetched = out]
              /\ web' = [web EXCEPT ![s] = ChainBResult(r, FALSE)]
              /\ Joined(s, claude[s], ChainBResult(r, FALSE))
              /\ UNCHANGED calls
  /\ UNCHANGED <<env, req, claude, blobs, uuids, ex, client>>

\* deleteBlob settles, the object deleted or not: the chain settles
DiscardSettle(s, ok) ==
  /\ chainB[s].step = "discard"
  /\ blobs' = IF ok THEN blobs \ {chainB[s].url} ELSE blobs
  /\ LET w == ChainBResult(chainB[s].search, ok)
     IN  /\ web' = [web EXCEPT ![s] = w]
         /\ Joined(s, claude[s], w)
  /\ chainB' = [chainB EXCEPT ![s].step = "end", ![s].deleted = ok]
  /\ UNCHANGED <<env, req, claude, calls, uuids, ex, client>>

\* the steps of the scans, their inputs drawn from the given sets
NextWith(bodies, replies, errors, outcomes) ==
  \E s \in Scans :
    \/ \E body \in bodies : Receive(s, body)
    \/ ReadBody(s)
    \/ \E blocks \in replies : VisionReply(s, blocks)
    \/ \E err \in errors : VisionFail(s, err)
    \/ StoreOk(s)
    \/ StoreFail(s)
    \/ \E out \in outcomes : SearchSettle(s, out)
    \/ \E ok \in BOOLEAN : DiscardSettle(s, ok)

Next == NextWith(Bodies, Replies, VisionErrors, FetchOutcomes)

Spec == Init /\ [][Next]_vars

\* ------------------------------------------------ the extractor alone

\* the tokens of the texts the extractor is run on
TextAlphabet ==
  {"{", "}", "[", "]", ",", "n", WS, "x", Fence, JsonTag, "a", "b"}

Texts == UNION {[1..n -> TextAlphabet] : n \in 0..MaxTextLen}

\* no scan arrives; the language model has replied with one text block
ExtractInit ==
  /\ InitWith({})
  /\ env = [anthropicKey |-> TRUE, serpApiKey |-> TRUE, blobToken |-> TRUE]
  /\ \E t \in Texts :
       ex = [phase |-> "text", raw |-> t, parsed |-> {}, analysis |-> Pending]

\* lines 89 to 100 of fetchClaudeAnalysis on that reply
Extract ==
  /\ ex.phase = "text"
  /\ ex' = [phase |-> "done", raw |-> ex.raw, parsed |-> extractJson(ex.raw),
            analysis |-> fetchClaudeAnalysis(<<TextBlock(ex.raw)>>)]
  /\ UNCHANGED <<env, req, pc, resp, claude, web, chainB, calls, blobs, uuids, client>>

ExtractNext == Extract

ExtractSpec == ExtractInit /\ [][ExtractNext]_vars

\* ------------------------------------------------ scans at once

\* every scan's request arrives, with all three credentials set; the inputs
\* are few, the interleavings are all there
ConcBodies ==
  {[kind |-> "object", image |-> Str(<<"QUJD">>), mediaType |-> {PNG}]}

ConcReplies == {<<TextBlock(<<"{", "a", "}">>)>>}

ConcErrors == {Error(<<"Connection error.">>)}

ConcOutcomes ==
  {[kind |-> "timeout", status |-> 0, data |-> [visual_matches |-> {}]],
   [kind |-> "response", status |-> 200,
    data |-> [visual_matches |-> {[i \in 1..2 |-> ProviderMatch(i)]}]]}

ConcInit ==
  /\ InitWith(Scans)
  /\ env = [anthropicKey |-> TRUE, serpApiKey |-> TRUE, blobToken |-> TRUE]
  /\ ex = ExIdle

ConcNext == NextWith(ConcBodies, ConcReplies, ConcErrors, ConcOutcomes)

ConcSpec == ConcInit /\ [][ConcNext]_vars

\* ------------------------------------------------ the client page alone

ServerVars == <<env, req, pc, resp, claude, web, chainB, calls, blobs, uuids, ex>>

\* handleFile, up to await file.arrayBuffer()
HandleFile(file) ==
  /\ client.phase = "idle" /\ client.route = "/"
  /\ client.flows < MaxFlows
  /\ IF ~IsImage(file)
     THEN client' = [client EXCEPT !.flows = @ + 1, !.outcome = NoOutcome,
                                   !.before = client.storage]
     ELSE client' = [client EXCEPT !.flows = @ + 1, !.outcome = NoOutcome,
                                   !.before = client.storage,
                                   !.phase = "reading", !.file = file,
                                   !.preview = {ObjectUrl(client.flows + 1)},
                                   !.isLoading = TRUE]
  /\ UNCHANGED ServerVars

\* file.arrayBuffer() settles: the request is sent, or the catch block runs
FileRead(ok) ==
  /\ client.phase = "reading"
  /\ IF ok
     THEN client' = [client EXCEPT !.phase = "fetching", !.requests = @ + 1]
     ELSE client' = [Caught(client, <<"The file could not be read">>)
                       EXCEPT !.outcome = [kind |-> "readerror", status |-> 0,
                                           json |-> "none"]]
  /\ UNCHANGED ServerVars

\* fetch and res.json() settle: the rest of the try block, or the catch block
ResponseArrives(out, sto) ==
  /\ client.phase = "fetching"
  /\ LET c == [client EXCEPT !.outcome = out]
         url == CHOOSE u \in client.preview : TRUE
         result == {<<"data", out.json>>}
     IN  IF out.kind = "neterror" \/ out.json = "none"
         THEN client' = Caught(c, ThrownMessage(out))
         ELSE IF ~ResOk(out.status)
         THEN client' = Caught(c, ThrownMessage(out))
         ELSE IF sto = "first"
         THEN client' = Caught(c, <<"QuotaExceededError">>)
         ELSE IF sto = "second"
         THEN client' = Caught([c EXCEPT !.storage.scanResult = result],
                               <<"QuotaExceededError">>)
         ELSE client' = [c EXCEPT !.storage = [scanResult |-> result,
                                               scanPreview |-> {url}],
                                  !.route = "/results", !.phase = "left"]
  /\ UNCHANGED ServerVars

\* the user comes back from the results page, by its button, which clears
\* the storage, or by the browser's back; Home mounts again
ComeBack(cleared) ==
  /\ client.phase = "left"
  /\ client' = [client EXCEPT !.phase = "idle", !.route = "/",
                              !.isLoading = FALSE, !.preview = {},
                              !.alert = {}, !.file = <<>>,
                              !.storage = IF cleared THEN EmptyStorage ELSE @]
  /\ UNCHANGED ServerVars

ClientInit ==
  /\ InitWith({})
  /\ env = [anthropicKey |-> TRUE, serpApiKey |-> TRUE, blobToken |-> TRUE]
  /\ ex = ExIdle

ClientNext ==
  \/ \E file \in Files : HandleFile(file)
  \/ \E ok \in BOOLEAN : FileRead(ok)
  \/ \E out \in ClientOutcomes : \E sto \in StorageOutcomes : ResponseArrives(out, sto)
  \/ \E cleared \in BOOLEAN : ComeBack(cleared)

ClientSpec == ClientInit /\ [][ClientNext]_vars

\* the search honours its 15 second timeout: it settles, and the callback of
\* .finally then runs
Fairness ==
  \A s \in Scans : WF_vars(\E out \in FetchOutcomes : SearchSettle(s, out))

FairSpec == Spec /\ Fairness

\* ------------------------------------------------------------ the claims

CallsOf(s, op) == {i \in DOMAIN calls[s] : calls[s][i].op = op}

Stored(s) == chainB[s].url # NoUrl

DiscardIssued(s) ==
  \E i \in CallsOf(s, "discard") : calls[s][i].url = chainB[s].url

Validated(s) == calls[s] # <<>>

Settled(p) == p.st \in {"fulfilled", "rejected"}

\* C1: once the store call of a scan has succeeded with a url, deleteBlob is
\* eventually called with that url, and it is never called twice nor with
\* another url, whatever the search and the vision call do.
C1_DiscardExactlyOnce ==
  /\ [](\A s \in Scans :
          /\ Cardinality(CallsOf(s, "discard")) <= 1
          /\ \A i \in CallsOf(s, "discard") :
               Stored(s) /\ calls[s][i].url = chainB[s].url)
  /\ \A s \in Scans : Stored(s) ~> DiscardIssued(s)

\* the search failed, deleteBlob was called, the vision call is still pending
C1_Witness ==
  \E s \in Scans :
    /\ Stored(s) /\ ~chainB[s].search.ok
    /\ DiscardIssued(s)
    /\ claude[s].st = "pending"

\* C2: a validated request gets no response before both chains have settled.
C2_ResponseAfterBothSettle ==
  \A s \in Scans :
    (pc[s] = "done" /\ Validated(s)) => (Settled(claude[s]) /\ Settled(web[s]))

\* C3: once the handler has returned, deleteBlob has been called for the
\* object its store call created.
C3_NoBlobSurvives ==
  \A s \in Scans : (pc[s] = "done" /\ Stored(s)) => DiscardIssued(s)

\* C4: the response of a validated request is decided by the vision call
\* alone: 200 when it returned extractable content, and else the 502 of its
\* error, whatever store, search and deleteBlob did.
C4_ChainBNeverFails ==
  \A s \in Scans :
    (pc[s] = "done" /\ Validated(s)) =>
      /\ Settled(claude[s])
      /\ claude[s].st = "fulfilled" =>
           (resp[s].status = 200 /\ "error" \notin DOMAIN resp[s].body \ DOMAIN claude[s].obj)
      /\ claude[s].st = "rejected" => resp[s] = CatchResponse(claude[s].err)

\* a 200 although the search and deleteBlob both failed
C4_Witness ==
  \E s \in Scans :
    /\ resp[s].status = 200
    /\ Stored(s) /\ ~chainB[s].search.ok
    /\ chainB[s].step = "end" /\ ~chainB[s].deleted

\* C5: with the search credential or the storage credential absent, no store,
\* search or delete call is made and a 200 carries an empty webResults.
C5_ChainBGated ==
  (~env.serpApiKey \/ ~env.blobToken) =>
    \A s \in Scans :
      /\ \A i \in DOMAIN calls[s] : calls[s][i].op = "vision"
      /\ resp[s].status = 200 => resp[s].body.webResults = <<>>

\* a 200 with one of the two credentials set and the other absent
C5_Witness ==
  \E s \in Scans :
    /\ env.serpApiKey /\ ~env.blobToken
    /\ resp[s].status = 200

\* C6: with the vision credential absent every response is the 500 of the
\* missing credential, and no external call is made.
C6_MissingCredential ==
  ~env.anthropicKey =>
    \A s \in Scans :
      /\ calls[s] = <<>>
      /\ pc[s] \in {"off", "idle", "done"}
      /\ pc[s] = "done" =>
           resp[s] = [status |-> 500,
                      body |-> [error |->
                        <<"ANTHROPIC_API_KEY environment variable is not set.">>]]

\* the 500 for a valid request, both optional credentials set
C6_Witness ==
  \E s \in Scans :
    /\ ~env.anthropicKey /\ env.serpApiKey /\ env.blobToken
    /\ req[s].kind = "object" /\ req[s].image = Str(<<"QUJD">>)
    /\ resp[s].status = 500

ImageInvalid(body) ==
  \/ body.kind \in {"null", "primitive"}
  \/ body.kind = "object" /\ body.image \in {Undefined, Num(<<"0">>), Num(<<"7">>), Str(<<>>)}

\* C7: with the vision credential set, a body that does not parse gets the
\* 400 "Invalid JSON body.", a parsed body without a usable image gets the
\* 400 "Missing base64 image in request body.", and no external call is made.
C7_ValidationFailures ==
  env.anthropicKey =>
    \A s \in Scans :
      /\ (req[s].kind = "unparseable" \/ ImageInvalid(req[s])) => calls[s] = <<>>
      /\ (pc[s] = "done" /\ req[s].kind = "unparseable") =>
           resp[s] = [status |-> 400, body |-> [error |-> <<"Invalid JSON body.">>]]
      /\ (pc[s] = "done" /\ ImageInvalid(req[s])) =>
           resp[s] = [status |-> 400,
                      body |-> [error |-> <<"Missing base64 image in request body.">>]]

ValidMediaTypes == {JPEG, PNG, GIF, WEBP}

\* C8: the media type of the vision call and of the store call is one of the
\* four valid ones: the declared one when that is valid, image/jpeg for any
\* other and for none; and no declared media type makes the request fail
\* validation.
C8_MediaTypeResolved ==
  \A s \in Scans :
    /\ \A i \in CallsOf(s, "vision") \cup CallsOf(s, "store") :
         /\ calls[s][i].mediaType \in ValidMediaTypes
         /\ req[s].mediaType \subseteq ValidMediaTypes /\ req[s].mediaType # {}
              => calls[s][i].mediaType \in req[s].mediaType
         /\ (req[s].mediaType = {} \/ ~(req[s].mediaType \subseteq ValidMediaTypes))
              => calls[s][i].mediaType = JPEG
    /\ (pc[s] \in {"joined", "done"} /\ env.anthropicKey
          /\ req[s].kind = "object" /\ ~ImageInvalid(req[s]))
         => CallsOf(s, "vision") # {}

\* an invalid declared media type, resolved to jpeg in both calls
C8_Witness ==
  \E s \in Scans :
    /\ req[s].mediaType = {<<"image", "bmp">>}
    /\ CallsOf(s, "vision") # {} /\ CallsOf(s, "store") # {}
    /\ \A i \in CallsOf(s, "vision") \cup CallsOf(s, "store") :
         calls[s][i].mediaType = JPEG

ExtractionFailed(s) ==
  claude[s].st = "rejected" /\ claude[s].err.at = "extract"

\* C9: a 502 carries the "unexpected response format" error and a raw field
\* exactly when the vision service replied and its text could not be
\* extracted; any other failure of the vision call gets "API request failed:"
\* with its message and no raw field.
C9_FailureClassification ==
  \A s \in Scans :
    (pc[s] = "done" /\ resp[s].status = 502) =>
      /\ ExtractionFailed(s) =>
           /\ resp[s].body.error = <<"Claude returned an unexpected response format.">>
           /\ "raw" \in DOMAIN resp[s].body
           /\ \E r \in Replies : resp[s].body.raw = ExtractMessage(Join(r))
      /\ ~ExtractionFailed(s) =>
           resp[s].body =
             [error |-> <<"API request failed: ">> \o MessageOf(claude[s].err)]

\* C10: when the vision call fails or its text cannot be extracted, the
\* response is a 502 that holds an error and nothing of the analysis or of
\* the web results, also when the search produced matches.
C10_MandatoryFailureAborts ==
  \A s \in Scans :
    claude[s].st = "rejected" =>
      /\ pc[s] = "done"
      /\ resp[s].status = 502
      /\ "error" \in DOMAIN resp[s].body
      /\ DOMAIN resp[s].body \subseteq {"error", "raw"}

\* a 502 of a scan whose search had produced matches
C10_Witness ==
  \E s \in Scans :
    /\ resp[s].status = 502
    /\ web[s].st = "fulfilled" /\ Len(web[s].val) > 0

\* C11: each of the four external calls is issued at most once per scan,
\* whatever the outcomes.
C11_AtMostOneAttempt ==
  \A s \in Scans : \A op \in {"vision", "store", "search", "discard"} :
    Cardinality(CallsOf(s, op)) <= 1

\* all four calls issued, the text not extractable, the search and the
\* deletion failed
C11_Witness ==
  \E s \in Scans :
    /\ \A op \in {"vision", "store", "search", "discard"} : CallsOf(s, op) # {}
    /\ ExtractionFailed(s)
    /\ chainB[s].step = "end" /\ ~chainB[s].search.ok /\ ~chainB[s].deleted

\* the list Chain B produces: the mapped matches after a store and a search
\* that succeeded, and else the empty list
ChainBList(s) ==
  IF Stored(s) /\ chainB[s].search.ok THEN chainB[s].search.val ELSE <<>>

\* C12: a 200 holds the pairs of the extracted object and webResults, the
\* latter being the list of Chain B.
C12_SuccessBody ==
  \A s \in Scans :
    resp[s].status = 200 =>
      /\ claude[s].st = "fulfilled"
      /\ DOMAIN resp[s].body = DOMAIN claude[s].obj \cup {"webResults"}
      /\ \A k \in DOMAIN claude[s].obj \ {"webResults"} :
           resp[s].body[k] = claude[s].obj[k]
      /\ resp[s].body.webResults = ChainBList(s)

\* a 200 with two pairs of the analysis and five matches
C12_Witness ==
  \E s \in Scans :
    /\ resp[s].status = 200
    /\ DOMAIN claude[s].obj = {"description", "valueRange"}
    /\ Len(resp[s].body.webResults) = 5

StoreFailed(s) == chainB[s].step = "end" /\ ~Stored(s)

SearchFailed(s) ==
  chainB[s].step \in {"discard", "end"} /\ Stored(s) /\ ~chainB[s].search.ok

\* C13: when the store or the search failed and the vision call succeeded,
\* the response is a 200 with an empty webResults and no error.
C13_EnrichmentFailureAbsorbed ==
  \A s \in Scans :
    (pc[s] = "done" /\ claude[s].st = "fulfilled"
       /\ (StoreFailed(s) \/ SearchFailed(s))) =>
      /\ resp[s].status = 200
      /\ resp[s].body.webResults = <<>>
      /\ "error" \notin DOMAIN resp[s].body

\* a 200 after the search timed out
C13_Witness ==
  \E s \in Scans :
    /\ resp[s].status = 200
    /\ SearchFailed(s) /\ chainB[s].fetched.kind = "timeout"

DiscardFailed(s) == chainB[s].step = "end" /\ Stored(s) /\ ~chainB[s].deleted

\* C14, as claimed: when deleteBlob fails, the match list of the scan, and
\* webResults in its response, is empty.
C14_DiscardFailureEmpties ==
  \A s \in Scans :
    DiscardFailed(s) =>
      /\ web[s].val = <<>>
      /\ resp[s].status = 200 => resp[s].body.webResults = <<>>

\* C14, amended: a failure of deleteBlob leaves the match list as the search
\* made it: the mapped matches after a search that succeeded, the empty list
\* after one that failed.
C14_DiscardFailureSwallowed ==
  \A s \in Scans :
    DiscardFailed(s) =>
      /\ web[s].st = "fulfilled"
      /\ web[s].val = ChainBList(s)
      /\ resp[s].status = 200 => resp[s].body.webResults = ChainBList(s)

\* deleteBlob failed and the 200 holds the matches of the search
C14_Witness ==
  \E s \in Scans :
    /\ DiscardFailed(s) /\ chainB[s].search.ok
    /\ resp[s].status = 200 /\ Len(resp[s].body.webResults) > 0

SearchReplied(s) ==
  /\ chainB[s].fetched.kind = "response"
  /\ chainB[s].fetched.status = 200

\* the provider's list of a scan whose search got a payload
ProviderList(s) ==
  LET vm == chainB[s].fetched.data.visual_matches
  IN  IF vm = {} THEN <<>> ELSE CHOOSE l \in vm : TRUE

\* C15: for a provider list of N matches the search client returns the first
\* min(N, 5), mapped, in the provider's order; no scan holds more than 5.
C15_FirstFiveInOrder ==
  \A s \in Scans :
    /\ Len(chainB[s].search.val) <= 5 /\ Len(web[s].val) <= 5
    /\ SearchReplied(s) =>
         LET n == Len(ProviderList(s))
             val == chainB[s].search.val
         IN  /\ chainB[s].search.ok
             /\ Len(val) = (IF n < 5 THEN n ELSE 5)
             /\ \A i \in 1..Len(val) :
                  /\ val[i] = WebResult(ProviderList(s)[i])
                  /\ ProviderList(s)[i].link # {} =>
                       val[i].link \in ProviderList(s)[i].link

\* more than five matches, in descending order of their numbers: five kept
C15_Witness ==
  \E s \in Scans :
    /\ SearchReplied(s)
    /\ Len(ProviderList(s)) > 5
    /\ ProviderList(s)[1] = ProviderMatch(Len(ProviderList(s)))
    /\ Len(chainB[s].search.val) = 5

\* the value of an optional field, or the default
OrDefault(field, default) ==
  IF field = {} THEN default ELSE CHOOSE v \in field : TRUE

\* C16: every WebResult has its five fields: price and thumbnail are null
\* when missing, title is "Unknown" when missing, link and source are the
\* empty string when missing, and what is present is forwarded unchanged.
C16_FieldDefaults ==
  \A s \in Scans :
    SearchReplied(s) =>
      \A i \in 1..Len(chainB[s].search.val) :
        LET r == chainB[s].search.val[i]
            m == ProviderList(s)[i]
        IN  /\ DOMAIN r = {"title", "price", "link", "source", "thumbnail"}
            /\ r.title = OrDefault(m.title, <<"Unknown">>)
            /\ r.link = OrDefault(m.link, <<>>)
            /\ r.source = OrDefault(m.source, <<>>)
            /\ r.thumbnail = m.thumbnail
            /\ r.price = (IF m.price = {} THEN {}
                          ELSE (CHOOSE p \in m.price : TRUE).value)
            /\ m.price = {} => r.price = {}
            /\ m.thumbnail = {} => r.thumbnail = {}

\* results with a null price, a null thumbnail, a defaulted title and an
\* empty title forwarded as it is
C16_Witness ==
  \E s \in Scans :
    /\ SearchReplied(s)
    /\ \E i \in 1..Len(chainB[s].search.val) :
         ProviderList(s)[i].price = {} /\ chainB[s].search.val[i].price = {}
    /\ \E i \in 1..Len(chainB[s].search.val) :
         ProviderList(s)[i].thumbnail = {} /\ chainB[s].search.val[i].thumbnail = {}
    /\ \E i \in 1..Len(chainB[s].search.val) :
         ProviderList(s)[i].title = {} /\ chainB[s].search.val[i].title = <<"Unknown">>
    /\ \E i \in 1..Len(chainB[s].search.val) :
         ProviderList(s)[i].title = {<<>>} /\ chainB[s].search.val[i].title = <<>>

\* the spans of a text that are a JSON object from their "{" to their "}"
ObjectSpans(t) ==
  {sp \in (1..Len(t)) \X (1..Len(t)) :
     /\ sp[1] < sp[2]
     /\ t[sp[1]] = "{" /\ t[sp[2]] = "}"
     /\ Acceptable(SubSeq(t, sp[1], sp[2]))}

\* the object a span parses to
ObjectOf(t, sp) == JSONparse(SubSeq(t, sp[1], sp[2])).obj

Extracted == ex.phase = "done"

\* C17, as claimed: from a text that holds a single JSON object, whatever
\* surrounds it (braces included), the extractor returns that object.
C17_SingleObjectRecovered ==
  Extracted =>
    \A sp \in ObjectSpans(ex.raw) :
      ObjectSpans(ex.raw) = {sp} => ex.parsed = {ObjectOf(ex.raw, sp)}

\* C17, amended: from a text that holds a single JSON object, with no "{"
\* before it and no "}" after it, the extractor returns that object.
C17_SingleObjectNoOuterBrace ==
  Extracted =>
    \A sp \in ObjectSpans(ex.raw) :
      (/\ ObjectSpans(ex.raw) = {sp}
       /\ \A i \in 1..(sp[1] - 1) : ex.raw[i] # "{"
       /\ \A i \in (sp[2] + 1)..Len(ex.raw) : ex.raw[i] # "}") =>
        /\ ex.parsed = {ObjectOf(ex.raw, sp)}
        /\ ex.analysis.st = "fulfilled"
        /\ ex.analysis.obj = ObjectOf(ex.raw, sp)

\* an object after a "}" of the prose, recovered
C17_Witness ==
  /\ Extracted
  /\ ex.raw = <<"}", "{", "a", "}">>
  /\ ex.parsed = {ObjectOf(ex.raw, <<2, 4>>)}
  /\ DOMAIN ObjectOf(ex.raw, <<2, 4>>) # {}

\* no "{" of the text is followed by a "}"
NoBracePair(t) ==
  ~ \E i \in 1..Len(t) : \E j \in 1..Len(t) :
      i < j /\ t[i] = "{" /\ t[j] = "}"

\* C18: from a text without a "{" that a "}" follows the extractor returns
\* nothing, and the vision client fails with the message that starts with
\* "Could not extract JSON" and ends with the text.
C18_NoBracePairFails ==
  (Extracted /\ NoBracePair(ex.raw)) =>
    /\ ex.parsed = {}
    /\ ex.analysis.st = "rejected"
    /\ ex.analysis.err.isError
    /\ ex.analysis.err.message =
         <<"Could not extract JSON", " from Claude response: ">> \o ex.raw

\* an array without braces, which parses, and is refused
C18_Witness ==
  /\ Extracted
  /\ ex.raw = <<"[", "n", "]">>
  /\ ex.analysis.st = "rejected"

\* the text parses as a whole to an array or a primitive
TopLevelNonObject(t) ==
  JSONparse(t).ok /\ JSONparse(t).kind \in {"array", "prim"}

\* C19, as claimed: a text that parses to an array or a primitive yields
\* nothing.
C19_NonObjectRejected ==
  (Extracted /\ TopLevelNonObject(ex.raw)) => ex.parsed = {}

\* the text from the first "{" to the last "}" is a JSON object
SliceIsObject(t) ==
  /\ Braces(t, "{") # {} /\ Braces(t, "}") # {}
  /\ Min(Braces(t, "{")) < Max(Braces(t, "}"))
  /\ Acceptable(SubSeq(t, Min(Braces(t, "{")), Max(Braces(t, "}"))))

\* C19, amended: a text that parses to an array or a primitive yields
\* nothing, unless its part from the first "{" to the last "}" is a JSON
\* object, which is then what the extractor returns.
C19_NonObjectRejectedUnlessSlice ==
  (Extracted /\ TopLevelNonObject(ex.raw)) =>
    IF SliceIsObject(ex.raw)
    THEN ex.parsed = {ObjectOf(ex.raw, <<Min(Braces(ex.raw, "{")),
                                          Max(Braces(ex.raw, "}"))>>)}
    ELSE ex.parsed = {} /\ ex.analysis.st = "rejected"

\* an array of arrays, refused
C19_Witness ==
  /\ Extracted
  /\ ex.raw = <<"[", "[", "]", "]">>
  /\ ex.parsed = {}

\* what belongs to one scan
Local(s) == <<req[s], pc[s], resp[s], claude[s], web[s], chainB[s], calls[s]>>

\* the objects of the store a scan's calls name
UrlsOf(s) ==
  {calls[s][i].url : i \in CallsOf(s, "search") \cup CallsOf(s, "discard")}

\* in every state: the stored objects of two scans have different names, a
\* scan's search and deleteBlob name the object the scan stored, that object
\* is there until the scan's own deleteBlob succeeded, and the response is
\* the one the scan's own outcomes give
C20_Apart ==
  /\ \A s \in Scans : \A t \in Scans \ {s} :
       (Stored(s) /\ Stored(t)) => chainB[s].url # chainB[t].url
  /\ \A s \in Scans :
       /\ UrlsOf(s) \subseteq {chainB[s].url} \ {NoUrl}
       /\ \A t \in Scans \ {s} : UrlsOf(s) \cap UrlsOf(t) = {}
       /\ (Stored(s) /\ ~chainB[s].deleted) => chainB[s].url \in blobs
       /\ (Stored(s) /\ chainB[s].deleted) => chainB[s].url \notin blobs
       /\ (pc[s] = "done" /\ Validated(s)) =>
            resp[s] = (IF claude[s].st = "rejected"
                       THEN CatchResponse(claude[s].err)
                       ELSE SuccessResponse(claude[s].obj, ChainBList(s)))

\* in every step: at most one scan moves, and the object of a scan that does
\* not move stays in the store or out of it
C20_StepOfOne ==
  /\ Cardinality({s \in Scans : Local(s)' # Local(s)}) <= 1
  /\ \A s \in Scans :
       (Local(s)' = Local(s) /\ Stored(s)) =>
         (chainB[s].url \in blobs' <=> chainB[s].url \in blobs)

\* C20: scans running at once do not interfere: their stored objects have
\* different names, each scan's search and deleteBlob touch only the object
\* the scan itself stored, and each scan's response follows from the outcomes
\* of its own calls, in every interleaving.
C20_NoInterference == [](C20_Apart) /\ [][C20_StepOfOne]_vars

\* two scans with the same image and media type, both stored;
\* the one deleted its object, the other's is still there; both answered,
\* differently
C20_Witness ==
  \E s \in Scans : \E t \in Scans \ {s} :
    /\ req[s].mediaType = req[t].mediaType
    /\ Stored(s) /\ Stored(t)
    /\ chainB[s].deleted /\ chainB[t].step = "end" /\ ~chainB[t].deleted
    /\ chainB[t].url \in blobs
    /\ resp[s].status = 200 /\ resp[t].status = 502

\* C21: while the vision call of a scan has not settled the scan has no
\* response, whatever Chain B has done; so a vision call that never settles
\* leaves the request without a response for ever.
C21_StalledVisionStalls ==
  \A s \in Scans :
    claude[s].st = "pending" => (pc[s] = "joined" /\ resp[s] = NoResponse)

\* Chain B through with matches, the object deleted, the vision call pending
C21_Witness ==
  \E s \in Scans :
    /\ claude[s].st = "pending"
    /\ chainB[s].step = "end" /\ chainB[s].deleted
    /\ web[s].st = "fulfilled" /\ Len(web[s].val) > 0
    /\ resp[s] = NoResponse

\* C22, as claimed: a Chain B that was started resolves to a match list, and
\* after a vision call that succeeded the 200 comes, however slow the store,
\* the search or deleteBlob is.
C22_ChainBSettles ==
  \A s \in Scans :
    /\ (web[s].st = "pending") ~> (web[s].st = "fulfilled")
    /\ (claude[s].st = "fulfilled") ~> (resp[s].status = 200)

\* the first index of a call of an operation, 0 when there is none
IndexOf(s, op) ==
  IF CallsOf(s, op) = {} THEN 0 ELSE Min(CallsOf(s, op))

\* C23: the search is issued only after the store succeeded and with the url
\* the store gave, deleteBlob only after the search settled and with that
\* url, and after a failed store neither is issued.
C23_ChainBSequential ==
  \A s \in Scans :
    /\ \A i \in CallsOf(s, "search") :
         /\ Stored(s) /\ calls[s][i].url = chainB[s].url
         /\ chainB[s].url \in blobs \/ chainB[s].step \in {"discard", "end"}
         /\ IndexOf(s, "store") > 0 /\ IndexOf(s, "store") < i
    /\ \A i \in CallsOf(s, "discard") :
         /\ Stored(s) /\ calls[s][i].url = chainB[s].url
         /\ chainB[s].step \in {"discard", "end"}
         /\ chainB[s].fetched.kind # "none"
         /\ IndexOf(s, "search") > 0 /\ IndexOf(s, "search") < i
    /\ StoreFailed(s) => (CallsOf(s, "search") = {} /\ CallsOf(s, "discard") = {})
    /\ chainB[s].step = "store" => (CallsOf(s, "search") = {} /\ CallsOf(s, "discard") = {})
    /\ chainB[s].step = "search" => CallsOf(s, "discard") = {}

\* store, search and deleteBlob issued in that order after a search that
\* failed
C23_Witness ==
  \E s \in Scans :
    /\ IndexOf(s, "store") = 2 /\ IndexOf(s, "search") = 3 /\ IndexOf(s, "discard") = 4
    /\ ~chainB[s].search.ok
    /\ calls[s][4].url = calls[s][3].url /\ calls[s][3].url # NoUrl

\* C24: with Chain B enabled the vision call and the store call are both
\* issued before the handler awaits, and the search is issued once the store
\* succeeded, whether the vision call has settled or not.
C24_ChainBIndependent ==
  \A s \in Scans :
    /\ (ChainBEnabled(env) /\ Validated(s)) =>
         (IndexOf(s, "vision") = 1 /\ IndexOf(s, "store") = 2)
    /\ (ChainBEnabled(env) /\ pc[s] = "joined") => Validated(s)
    /\ Stored(s) => CallsOf(s, "search") # {}

\* the search and deleteBlob done while the vision call is pending
C24_Witness ==
  \E s \in Scans :
    /\ claude[s].st = "pending"
    /\ chainB[s].step = "end" /\ chainB[s].search.ok /\ chainB[s].deleted
    /\ CallsOf(s, "search") # {} /\ CallsOf(s, "discard") # {}

\* the three preconditions of the handler
Preconditions(s) ==
  /\ env.anthropicKey
  /\ req[s].kind = "object"
  /\ req[s].image.type = "string" /\ req[s].image.val # <<>>

\* C25: a request that passes the three preconditions gets one vision call,
\* with its image string and the resolved media type, whatever the optional
\* credentials and whether the image is base64 or not.
C25_VisionAlwaysStarted ==
  \A s \in Scans :
    (Preconditions(s) /\ pc[s] \in {"joined", "done"}) =>
      /\ Cardinality(CallsOf(s, "vision")) = 1
      /\ \A i \in CallsOf(s, "vision") :
           /\ calls[s][i].image = req[s].image.val
           /\ calls[s][i].mediaType =
                (IF req[s].mediaType \in {{JPEG}, {PNG}, {GIF}, {WEBP}}
                 THEN CHOOSE m \in req[s].mediaType : TRUE
                 ELSE JPEG)

\* the vision call for an image that is no base64, without the optional
\* credentials
C25_Witness ==
  \E s \in Scans :
    /\ ~env.serpApiKey /\ ~env.blobToken
    /\ req[s].image = Str(<<"not base64 !">>)
    /\ CallsOf(s, "vision") = {1}
    /\ calls[s][1].image = <<"not base64 !">>

\* the text parses to a JSON object
IsJsonObject(t) == JSONparse(t).ok /\ JSONparse(t).kind = "object"

\* the candidates in their order: fences stripped, first "{" to last "}",
\* the span of the regular expression
Candidates(t) == <<FenceStripped(t)>> \o BraceSlice(t) \o RegexSpan(t)

\* C26: the result of extractJson is the parse of the first candidate, in
\* the order fence-stripped, brace slice, regex span, that is a JSON object,
\* and it is null exactly when none is.
C26_FirstValidParseWins ==
  Extracted =>
    LET c == Candidates(ex.raw)
        good == {i \in 1..Len(c) : IsJsonObject(c[i])}
    IN  /\ good = {} <=> ex.parsed = {}
        /\ good # {} => ex.parsed = {JSONparse(c[Min(good)]).obj}
        /\ Len(c) \in 1..3
        /\ IsJsonObject(c[1]) => ex.parsed = {JSONparse(c[1]).obj}

\* the first candidate refused, the second taken
C26_Witness ==
  /\ Extracted
  /\ ex.raw = <<"x", "{", "b", "}">>
  /\ ~IsJsonObject(Candidates(ex.raw)[1])
  /\ ex.parsed = {JSONparse(Candidates(ex.raw)[2]).obj}

\* the texts of the text blocks, one after the other
Concat(blocks) ==
  LET texts == SelectSeq(blocks, LAMBDA b : b.type = "text")
      F[i \in 0..Len(texts)] == IF i = 0 THEN <<>> ELSE F[i - 1] \o texts[i].text
  IN  F[Len(texts)]

\* C27: a reply of the language model is handled as the concatenation of its
\* text blocks, in their order, without a separator, the other blocks
\* ignored: when that text holds an object the vision call gives it, and
\* else, a reply without a text block included, the scan gets the 502 with
\* the raw text.
C27_TextBlocksJoined ==
  [][\A s \in Scans : \A blocks \in Replies :
       VisionReply(s, blocks) =>
         LET t == Concat(blocks)
         IN  IF extractJson(t) = {}
             THEN /\ claude'[s].st = "rejected"
                  /\ claude'[s].err.message =
                       <<"Could not extract JSON", " from Claude response: ">> \o t
                  /\ resp'[s].status = 502
                  /\ resp'[s].body.raw = claude'[s].err.message
             ELSE /\ claude'[s].st = "fulfilled"
                  /\ claude'[s].obj \in extractJson(t)]_vars

\* the keys of an object that came in two text blocks with a tool block
\* between them
C27_Witness ==
  \E s \in Scans :
    /\ claude[s].st = "fulfilled"
    /\ DOMAIN claude[s].obj = {PairKey("a"), PairKey("w")}
    /\ resp[s].status = 200

\* C28: the webResults of a 200 is the list of Chain B, also when the
\* extracted object has a key webResults of its own.
C28_WebResultsOverridden ==
  \A s \in Scans :
    resp[s].status = 200 =>
      /\ resp[s].body.webResults = ChainBList(s)
      /\ \A i \in 1..Len(resp[s].body.webResults) :
           resp[s].body.webResults[i].title # <<"injected">>

\* an extracted object with its own webResults, and a 200 with the matches
\* of the search, and one with none
C28_Witness ==
  \E s \in Scans :
    /\ resp[s].status = 200
    /\ "webResults" \in DOMAIN claude[s].obj
    /\ Len(claude[s].obj.webResults) = 1
    /\ claude[s].obj.webResults[1].title = <<"injected">>
    /\ resp[s].body.webResults = <<>>

\* C29: a 200 of a scan whose store succeeded comes after deleteBlob has
\* settled.
C29_SuccessWaitsForCleanup ==
  \A s \in Scans :
    (Stored(s) /\ resp[s].status = 200) =>
      /\ DiscardIssued(s)
      /\ chainB[s].step = "end"

\* a 200 with matches, the object deleted
C29_Witness ==
  \E s \in Scans :
    /\ resp[s].status = 200 /\ Len(resp[s].body.webResults) > 0
    /\ Stored(s) /\ chainB[s].deleted

\* in every state: the status of a response is one of four, a 200 has an
\* extracted analysis behind it, a 400 or 500 has no external call before it
C30_Statuses ==
  \A s \in Scans :
    /\ pc[s] = "done" <=> resp[s] # NoResponse
    /\ pc[s] = "done" => resp[s].status \in {200, 400, 500, 502}
    /\ resp[s].status = 200 =>
         /\ claude[s].st = "fulfilled"
         /\ CallsOf(s, "vision") # {}
    /\ resp[s].status \in {400, 500} => calls[s] = <<>>

\* in every step: a response that was given stays as it is
C30_RespondsOnce ==
  \A s \in Scans : resp[s] # NoResponse => resp'[s] = resp[s]

\* C30: a request gets at most one response, with status 200, 400, 500 or
\* 502; 200 only after the vision call returned and the extraction
\* succeeded, 400 and 500 only before any external call.
C30_OneResponse == [](C30_Statuses) /\ [][C30_RespondsOnce]_vars

\* the 502 given early, and Chain B finished after it
C30_Witness ==
  \E s \in Scans :
    /\ resp[s].status = 502
    /\ chainB[s].step = "end" /\ Stored(s)

\* C32: the candidate of the regular expression exists exactly when the
\* slice from the first "{" to the last "}" does, and the two are then the
\* same text; so the third candidate is never acceptable when the second is
\* not.
C32_RegexIsBraceSlice ==
  Extracted =>
    /\ Len(RegexSpan(ex.raw)) = Len(BraceSlice(ex.raw))
    /\ Len(RegexSpan(ex.raw)) = 1 => RegexSpan(ex.raw)[1] = BraceSlice(ex.raw)[1]
    /\ (Len(RegexSpan(ex.raw)) = 1 /\ IsJsonObject(RegexSpan(ex.raw)[1])) =>
         (Len(BraceSlice(ex.raw)) = 1 /\ IsJsonObject(BraceSlice(ex.raw)[1]))
    /\ Len(BraceSlice(ex.raw)) = 1 <=>
         (\E i \in 1..Len(ex.raw) : \E j \in 1..Len(ex.raw) :
            i < j /\ ex.raw[i] = "{" /\ ex.raw[j] = "}")

\* two objects side by side: both candidates are the whole text, which is
\* no object
C32_Witness ==
  /\ Extracted
  /\ ex.raw = <<"{", "}", "{", "}">>
  /\ RegexSpan(ex.raw) = <<ex.raw>> /\ BraceSlice(ex.raw) = <<ex.raw>>
  /\ ex.parsed = {}

\* C33: the name of a stored object is temp-scans/<id>.<ext>, the id one
\* that no other object got, ext being jpg, png, gif or webp according to
\* the media type of the store call.
C33_ObjectName ==
  \A s \in Scans :
    Stored(s) =>
      /\ Len(chainB[s].url) = 4
      /\ chainB[s].url[1] = "temp-scans/"
      /\ chainB[s].url[2] \in 1..uuids
      /\ chainB[s].url[3] = "."
      /\ chainB[s].url[4] \in {"jpg", "png", "gif", "webp"}
      /\ \A i \in CallsOf(s, "store") :
           chainB[s].url[4] =
             (IF calls[s][i].mediaType = <<"image", "jpeg">> THEN "jpg"
              ELSE IF calls[s][i].mediaType = <<"image", "png">> THEN "png"
              ELSE IF calls[s][i].mediaType = <<"image", "gif">> THEN "gif"
              ELSE IF calls[s][i].mediaType = <<"image", "webp">> THEN "webp"
              ELSE "none")
      /\ \A t \in Scans \ {s} : Stored(t) => chainB[t].url[2] # chainB[s].url[2]

\* an object stored as .jpg for a request that declared image/bmp
C33_Witness ==
  \E s \in Scans :
    /\ Stored(s)
    /\ req[s].mediaType = {<<"image", "bmp">>}
    /\ chainB[s].url[4] = "jpg"

\* the flow of handleFile ended in a failure: the file not read, the fetch
\* rejected, the body no JSON, or the status not 2xx
FlowFailed(c) ==
  \/ c.outcome.kind \in {"readerror", "neterror"}
  \/ c.outcome.kind = "response"
       /\ (c.outcome.json = "none" \/ c.outcome.status \notin 200..299)

\* the flow got a 2xx response with a JSON body
FlowSucceeded(c) ==
  /\ c.outcome.kind = "response"
  /\ c.outcome.status \in 200..299
  /\ c.outcome.json # "none"

\* in every state: the results page is shown after a success only, and after
\* a failure the page is idle, the storage as it was before and one alert up
C31_AfterTheFlow ==
  /\ client.route = "/results" =>
       /\ FlowSucceeded(client)
       /\ client.storage.scanResult # {} /\ client.storage.scanPreview # {}
  /\ FlowFailed(client) =>
       /\ client.phase = "idle"
       /\ ~client.isLoading /\ client.preview = {}
       /\ client.route = "/"
       /\ client.storage = client.before
  /\ client.phase \in {"reading", "fetching"} =>
       (client.isLoading /\ client.preview # {} /\ client.storage = client.before)

\* in every step: a key of the storage is written, or the results page is
\* gone to, only with a 2xx JSON response; and handleFile with a file that is
\* no image changes nothing of the page and sends nothing
C31_DuringTheFlow ==
  /\ ((\E k \in DOMAIN client.storage :
         client'.storage[k] # {} /\ client'.storage[k] # client.storage[k])
      \/ (client.route = "/" /\ client'.route = "/results")) =>
       (client.phase = "fetching" /\ FlowSucceeded(client'))
  /\ \A file \in Files :
       (HandleFile(file) /\ ~StartsWith(file, <<"image/">>)) =>
         /\ client'.phase = client.phase
         /\ client'.isLoading = client.isLoading
         /\ client'.preview = client.preview
         /\ client'.route = client.route
         /\ client'.storage = client.storage
         /\ client'.requests = client.requests
         /\ client'.alert = client.alert

\* C31: in handleFile the result is stored and the results page gone to only
\* after a 2xx response with a JSON body; after a failure (no fetch, no JSON,
\* no 2xx) the page is idle again, nothing stored, no navigation; a file that
\* is no image changes nothing and sends no request.
C31_ClientFlow == [](C31_AfterTheFlow) /\ [][C31_DuringTheFlow]_vars

\* a second flow failed with a 502 in JSON after a first one that stored
\* its result: the page is idle and the storage still holds the first
C31_Witness ==
  /\ client.flows = 2 /\ client.phase = "idle"
  /\ client.outcome = [kind |-> "response", status |-> 502, json |-> "error"]
  /\ client.requests = 2
  /\ client.storage.scanPreview = {ObjectUrl(1)}
  /\ client.alert # {}

====
